---- MODULE Spec2Model ----
(***************************************************************************)
(* Model of desktop_assistant_vosk.py: the VoiceAssistantApp capture loop  *)
(* (main_listener_loop), the start/stop toggle of the UI thread, the LLM   *)
(* bridge (process_command / query_llm) and the speaker worker.            *)
(*                                                                         *)
(* A Python string is modelled as a sequence of pieces (string atoms); an  *)
(* f-string is the concatenation of its pieces, the empty string is <<>>.  *)
(* Each capture thread takes one step per blocking point of the loop:      *)
(* thread start-up, the `while self.is_listening` test, the iteration from *)
(* the return of stream.read() up to the next blocking call, and the       *)
(* iteration's remainder from the return of requests.post().               *)
(*                                                                         *)
(* The log textbox and the console are written and never read: the model   *)
(* keeps the lines the last step appended (ev.logged, ev.printed), and     *)
(* likewise the payload it posted (ev.posted).  The speaker worker shares  *)
(* only speak_queue with the other threads; SpeakerSpec runs it against    *)
(* arbitrary speak() calls, Spec runs the UI and the capture threads.      *)
(***************************************************************************)
EXTENDS Integers, Sequences, FiniteSets

\* ------------------------------------------------------------- bounds
MaxToggles == 3      \* clicks on the toggle button
MaxBlocks  == 4      \* audio blocks returned by stream.read(), all threads
MaxInputs  == 7      \* clicks and blocks of one run together (binds for larger
                     \* MaxToggles and MaxBlocks, where it cuts the runs that
                     \* use all of both)
StartTime  == 10     \* clock value at construction
MaxUtterances == 4   \* speak() calls in SpeakerSpec

\* Seconds that pass across one stream.read while the command window is open;
\* the values lie on both sides of COMMAND_TIMEOUT.
Delays == {5, 6}
\* Seconds that pass across a blocking call whose duration no code compares
\* with the timeout: a read outside the command window, a requests.post.
OtherDelays == {6}

\* ------------------------------------------------------------- configuration
WAKE_WORD == <<"computer">>
COMMAND_TIMEOUT == 5
LLM_MODEL == "llama3"

\* One capture thread per start_listening; every second click is a start.
Threads == 1..((MaxToggles + 1) \div 2)

\* ------------------------------------------------------------- strings
\* The characters of the atoms a partial transcript is made of.
Chars(atom) ==
    CASE atom = "computer"     -> <<"c","o","m","p","u","t","e","r">>
      [] atom = "my computers" -> <<"m","y"," ","c","o","m","p","u","t","e","r","s">>
      [] atom = "what time"    -> <<"w","h","a","t"," ","t","i","m","e">>
      [] OTHER                 -> <<atom>>

RECURSIVE Flatten(_)
Flatten(text) ==
    IF text = <<>> THEN <<>> ELSE Chars(Head(text)) \o Flatten(Tail(text))

\* Python's `sub in s` on strings: sub occurs in s as a contiguous run.
IsSubstring(sub, s) ==
    \E i \in 0..(Len(s) - Len(sub)) :
        \A j \in 1..Len(sub) : s[i + j] = sub[j]

\* `WAKE_WORD in partial_text`
HasWakeWord(partial_text) == IsSubstring(Flatten(WAKE_WORD), Flatten(partial_text))

\* Truthiness of a Python string.
Truthy(text) == text # <<>>

\* np.concatenate of a list of blocks (a block is a sequence of samples).
RECURSIVE Concatenate(_)
Concatenate(blocks) ==
    IF blocks = <<>> THEN <<>> ELSE Head(blocks) \o Concatenate(Tail(blocks))

\* ------------------------------------------------------------- inputs
\* Partial transcripts the recognizer can report for a block.
PartialTexts == { <<>>, <<"what time">>, <<"my computers">> }
\* Final transcripts the recognizer can report.
FinalTexts == { <<>>, <<"what time is it">> }
\* What requests.post / raise_for_status / response.json can produce.
LLMOutcomes ==
    { [kind |-> "reply",     val |-> <<"it is noon">>],
      [kind |-> "reply",     val |-> <<>>],
      [kind |-> "nofield",   val |-> <<>>],
      [kind |-> "http",      val |-> <<"500 Server Error">>],
      [kind |-> "transport", val |-> <<"Connection refused">>],
      [kind |-> "notobject", val |-> <<"'list' object has no attribute 'get'">>] }

StatusIdle      == <<"Idle">>
StatusListening == <<"Listening for '">> \o WAKE_WORD \o <<"'...">>
StatusSpeak     == <<"Speak your query now...">>
StatusQuerying  == <<"Querying LLM...">>

VARIABLES
    is_listening,          \* self.is_listening
    in_command_window,     \* self.in_command_window
    last_word_time,        \* self.last_word_time
    command_audio_buffer,  \* self.command_audio_buffer
    listening_thread,      \* self.listening_thread (0 = None)
    status,                \* text of status_label, without "Status: "
    button,                \* text of toggle_button
    speak_queue,           \* self.speak_queue
    sp_pc,                 \* speaker worker: "get" | "render"
    sp_text,               \* text_to_speak of the speaker worker
    played,                \* utterances handed to the engine, with the outcome
    enqueued,              \* every text ever put on speak_queue, in order
    now,                   \* time.time()
    pc,                    \* per capture thread: position in main_listener_loop
    stream,                \* per capture thread: "none" | "open" | "closed"
    local,                 \* per capture thread: command_text and branch held across the LLM call
    fresh,                 \* per capture thread: it has processed no block yet
    stopped,               \* per capture thread: stop_listening ran while it was running
    blocks,                \* calls of stream.read that have returned or raised
    toggles,               \* clicks so far
    since_wake,            \* blocks processed as command audio since the last wake-word detection
    calls,                 \* process_command calls since the last wake-word detection
    stale,                 \* blocks that were in the buffer when the last wake word was detected
    ev                     \* what the last step did

vars == << is_listening, in_command_window, last_word_time, command_audio_buffer,
           listening_thread, status, button, speak_queue, sp_pc, sp_text, played,
           enqueued, now, pc, stream, local, fresh, stopped, blocks, toggles,
           since_wake, calls, stale, ev >>

uiVars      == << is_listening, listening_thread, button >>
sessionVars == << in_command_window, last_word_time, command_audio_buffer >>
speakerVars == << sp_pc, sp_text, played >>
queueVars   == << speak_queue, enqueued >>
threadVars  == << pc, stream, local, fresh >>
boundVars   == << blocks, toggles >>

NoLocal == [command_text |-> <<>>, path |-> "none"]

\* The record of a step; the fields a step does not set keep these values.
\*   icw, listening, first, stopped: in_command_window, is_listening, fresh[t],
\*     stopped[t] before the step
\*   path: how the command window of the command ends ("final" | "timeout")
\*   final, partial, text: is_final, partial_text, command_text of the iteration
\*   elapsed: time.time() - self.last_word_time as line 131 evaluates it
\*   fed: the audio force-fed on the timeout path;  reset: recognizer.Reset() ran
\*   outcome, val: how the step went;  said, logged, printed, posted: its output
NoEv == [ kind |-> "init", t |-> 0, icw |-> FALSE, listening |-> FALSE,
          first |-> FALSE, stopped |-> "no", path |-> "none", final |-> FALSE, partial |-> <<>>, elapsed |-> 0,
          text |-> <<>>, fed |-> <<>>, reset |-> FALSE, outcome |-> "none",
          val |-> <<>>, said |-> <<>>, logged |-> <<>>, printed |-> <<>>,
          posted |-> <<>>, running |-> {} ]

ReadDelays == IF in_command_window THEN Delays ELSE OtherDelays

Running(t) == pc[t] \in {"init", "top", "read", "llm"}
InLoop(t)  == pc[t] \in {"top", "read", "llm"}

Init ==
    /\ is_listening = FALSE
    /\ in_command_window = FALSE
    /\ last_word_time = 0
    /\ command_audio_buffer = <<>>
    /\ listening_thread = 0
    /\ status = StatusIdle
    /\ button = "Start Listening"
    /\ speak_queue = <<>>
    /\ sp_pc = "get"
    /\ sp_text = <<>>
    /\ played = <<>>
    /\ enqueued = <<>>
    /\ now = StartTime
    /\ pc = [t \in Threads |-> "none"]
    /\ stream = [t \in Threads |-> "none"]
    /\ local = [t \in Threads |-> NoLocal]
    /\ fresh = [t \in Threads |-> TRUE]
    /\ stopped = [t \in Threads |-> "no"]
    /\ blocks = 0
    /\ toggles = 0
    /\ since_wake = <<>>
    /\ calls = 0
    /\ stale = 0
    /\ ev = NoEv

\* ------------------------------------------------------------- helpers
\* speak(): self.speak_queue.put(text)
speak(queue, text) == Append(queue, text)

\* The queue after the speak() calls of one step, in order.
RECURSIVE PutAll(_, _)
PutAll(queue, texts) ==
    IF texts = <<>> THEN queue ELSE PutAll(speak(queue, Head(texts)), Tail(texts))

\* log_message that ignores speak_message: nothing is spoken.
log_message_Silent(message, speak_message) ==
    [ logged |-> <<message>>, said |-> <<>> ]

\* log_message(message, speak_message): the line logged and the text spoken.
log_message(message, speak_message) ==
    [ logged |-> <<message>>, said |-> IF speak_message THEN <<message>> ELSE <<>> ]

RECURSIVE Logged(_)
Logged(out) == IF out = <<>> THEN <<>> ELSE Head(out).logged \o Logged(Tail(out))

RECURSIVE Said(_)
Said(out) == IF out = <<>> THEN <<>> ELSE Head(out).said \o Said(Tail(out))

\* The output of a step of a capture thread: `out` is the sequence of its
\* log_message results and speak() calls, `e` the rest of the step's record.
\* For these threads the queue is an output like the log: ev.said is what the
\* step's speak() calls put on it, in order.  SpeakerSpec has the queue itself.
Emit(e, out) ==
    /\ ev' = [e EXCEPT !.logged = Logged(out), !.said = PutAll(<<>>, Said(out))]
    /\ UNCHANGED queueVars

\* A step with no output.
Silent(e) == ev' = e /\ UNCHANGED queueVars

\* The record of a step of capture thread t.
EvOf(kind, t) ==
    [NoEv EXCEPT !.kind = kind, !.t = t, !.icw = in_command_window,
                 !.listening = is_listening, !.first = fresh[t],
                 !.stopped = stopped[t]]

\* stop_listening without line 97: the status label is left as it is.
stop_listening_KeepsStatus ==
    /\ is_listening' = FALSE
    /\ in_command_window' = FALSE
    /\ button' = "Start Listening"
    /\ status' = status

\* stop_listening(): lines 94-97.
stop_listening ==
    /\ is_listening' = FALSE
    /\ in_command_window' = FALSE
    /\ button' = "Start Listening"
    /\ status' = StatusIdle

\* Bookkeeping: the capture loops that are running when stop_listening is
\* called (by thread `self`, 0 for the UI thread) and whether the command
\* window was open then.
StoppedBy(self) ==
    [t \in Threads |->
        IF Running(t) /\ t # self
        THEN (IF in_command_window THEN "window" ELSE "waiting")
        ELSE stopped[t]]

\* ------------------------------------------------------------- UI thread
\* toggle_listening() with is_listening false: start_listening(), lines 87-91.
StartListening ==
    /\ toggles < MaxToggles
    /\ toggles + blocks < MaxInputs
    /\ ~is_listening
    /\ \E t \in Threads :
        /\ pc[t] = "none"
        /\ \A u \in Threads : u < t => pc[u] # "none"
        /\ is_listening' = TRUE
        /\ button' = "Stop Listening"
        /\ listening_thread' = t
        /\ pc' = [pc EXCEPT ![t] = "init"]
        /\ Silent([NoEv EXCEPT !.kind = "start", !.t = t, !.icw = in_command_window,
                               !.listening = is_listening,
                               !.running = {u \in Threads : Running(u)}])
    /\ toggles' = toggles + 1
    /\ UNCHANGED << sessionVars, status, speakerVars, now, stream, local, fresh,
                    stopped, blocks, since_wake, calls, stale >>

\* toggle_listening() with is_listening true: stop_listening().
StopListening ==
    /\ toggles < MaxToggles
    /\ toggles + blocks < MaxInputs
    /\ is_listening
    /\ stop_listening
    /\ toggles' = toggles + 1
    /\ stopped' = StoppedBy(0)
    /\ Silent([NoEv EXCEPT !.kind = "stop", !.icw = in_command_window,
                           !.listening = is_listening,
                           !.running = {u \in Threads : Running(u)}])
    /\ UNCHANGED << last_word_time, command_audio_buffer, listening_thread,
                    speakerVars, now, threadVars, blocks, since_wake, calls, stale >>

\* ------------------------------------------------------------- capture thread
\* Lines 101-111: model and recognizer are created; the status is set and the
\* stream opened.
LoopInitOk(t) ==
    /\ pc[t] = "init"
    /\ status' = StatusListening
    /\ stream' = [stream EXCEPT ![t] = "open"]
    /\ pc' = [pc EXCEPT ![t] = "top"]
    /\ Silent(EvOf("init_ok", t))
    /\ UNCHANGED << uiVars, sessionVars, speakerVars, now, local, fresh, stopped,
                    boundVars, since_wake, calls, stale >>

InitErrorMessage == <<"Initialization Error: ", "model not found">>

\* Lines 105-108: vosk.Model / KaldiRecognizer raise.
LoopInitFails(t) ==
    /\ pc[t] = "init"
    /\ Emit(EvOf("init_fail", t), << log_message(InitErrorMessage, TRUE) >>)
    /\ stop_listening
    /\ pc' = [pc EXCEPT ![t] = "done"]
    /\ stopped' = StoppedBy(t)
    /\ UNCHANGED << last_word_time, command_audio_buffer, listening_thread,
                    speakerVars, now, stream, local, fresh, boundVars, since_wake, calls, stale >>

\* Line 112: `while self.is_listening`, true.
LoopTopContinue(t) ==
    /\ pc[t] = "top"
    /\ is_listening
    /\ pc' = [pc EXCEPT ![t] = "read"]
    /\ Silent(EvOf("top_continue", t))
    /\ UNCHANGED << uiVars, sessionVars, status, speakerVars, now, stream, local,
                    fresh, stopped, boundVars, since_wake, calls, stale >>

\* Lines 111-112: `while self.is_listening`, false: the with-block closes the stream.
LoopTopExit(t) ==
    /\ pc[t] = "top"
    /\ ~is_listening
    /\ pc' = [pc EXCEPT ![t] = "done"]
    /\ stream' = [stream EXCEPT ![t] = "closed"]
    /\ Silent(EvOf("exit", t))
    /\ UNCHANGED << uiVars, sessionVars, status, speakerVars, now, local, fresh,
                    stopped, boundVars, since_wake, calls, stale >>


\* ------------------------------------------------------------- one iteration
\* Line 114: stream.read(BLOCKSIZE) returns after d seconds.
BlockRead(t, d) ==
    /\ pc[t] = "read"
    /\ blocks < MaxBlocks
    /\ toggles + blocks < MaxInputs
    /\ now' = now + d
    /\ blocks' = blocks + 1
    /\ toggles' = toggles

\* The block read: its samples are named by the number of the read.
NewBlock == << blocks + 1 >>

\* BufferAppend at the front of the buffer.
BufferAppend_Front(buffer, data) == <<data>> \o buffer

\* Line 120: the block goes to the end of the buffer.
BufferAppend(buffer, data) == Append(buffer, data)

\* Line 121: the time of the last word moves only on a non-empty partial text.
WordTime(partial_text, t_now, last) == IF Truthy(partial_text) THEN t_now ELSE last

\* TimedOut with a threshold one second late.
TimedOut_Late(t_now, last) == t_now - last > COMMAND_TIMEOUT + 1

\* Line 131: time.time() - self.last_word_time > COMMAND_TIMEOUT
TimedOut(t_now, last) == t_now - last > COMMAND_TIMEOUT

\* Payload with the logged line as the prompt.
Payload_LogLine(prompt) ==
    [model |-> LLM_MODEL, prompt |-> <<"> Query: ">> \o prompt, stream |-> FALSE]

\* Lines 161-165: the JSON body of the request.
Payload(prompt) == [model |-> LLM_MODEL, prompt |-> prompt, stream |-> FALSE]

QueryLine(command_text) == <<"> Query: ">> \o command_text
SendingLine == <<"Sending query to LLM...">>
TimeoutLine == <<"Timeout reached, processing command...">>
NotUnderstood == <<"I heard something, but could not understand.">>
WakeLine == <<"'">> \o WAKE_WORD \o <<"' detected.">>

\* LoopErrorLine without the exception: a fixed line.
LoopErrorLine_NoText(e) == <<"Error during listening loop">>

\* Line 154: the line logged by the loop's exception handler.
LoopErrorLine(e) == <<"Error during listening loop: ">> \o e

\* EnterCommandWindow without line 149: the buffer is not cleared.
EnterCommandWindow_KeepsBuffer(t_now) ==
    [ in_command_window |-> TRUE, last_word_time |-> t_now,
      command_audio_buffer |-> command_audio_buffer, reset |-> TRUE ]

\* Lines 147-149 and 152: the session state on entry to the command window;
\* the recognizer is reset.
EnterCommandWindow(t_now) ==
    [ in_command_window |-> TRUE, last_word_time |-> t_now,
      command_audio_buffer |-> <<>>, reset |-> TRUE ]

\* EndOfWindow with a recognizer.Reset() after the window.
EndOfWindow_Resets(path, buffer) ==
    [ in_command_window |-> FALSE,
      command_audio_buffer |-> IF path = "timeout" THEN <<>> ELSE buffer,
      reset |-> TRUE ]

\* Lines 129 and 142-143: the session state when a command window ends, by a
\* final result (the buffer is kept) or by the timeout (the buffer is emptied);
\* the recognizer is not reset.
EndOfWindow(path, buffer) ==
    [ in_command_window |-> FALSE,
      command_audio_buffer |-> IF path = "timeout" THEN <<>> ELSE buffer,
      reset |-> FALSE ]

\* Lines 130 and 144: the status after a command window.
EndOfWindowStatus == StatusListening

\* Lines 153-154: stream.read, AcceptWaveform or json.loads raise; the rest of
\* the iteration is skipped.
ReadRaises(t) ==
    /\ \E d \in ReadDelays : BlockRead(t, d)
    /\ Emit([EvOf("read_raises", t) EXCEPT !.outcome = "raised",
                                           !.val = <<"PortAudioError">>],
            << log_message(LoopErrorLine(<<"PortAudioError">>), TRUE) >>)
    /\ pc' = [pc EXCEPT ![t] = "top"]
    /\ UNCHANGED << uiVars, sessionVars, status, speakerVars, stream, local,
                    fresh, stopped, since_wake, calls, stale >>

\* Lines 145-152: not in the command window, the wake word is in the partial text.
WakeWordDetected(t) ==
    /\ ~in_command_window
    /\ \E d \in ReadDelays, is_final \in BOOLEAN, partial_text \in PartialTexts :
        /\ BlockRead(t, d)
        /\ HasWakeWord(partial_text)
        /\ in_command_window' = EnterCommandWindow(now').in_command_window
        /\ last_word_time' = EnterCommandWindow(now').last_word_time
        /\ command_audio_buffer' = EnterCommandWindow(now').command_audio_buffer
        /\ status' = StatusSpeak
        /\ Emit([EvOf("wake", t) EXCEPT !.partial = partial_text,
                                        !.reset = EnterCommandWindow(now').reset],
                << log_message(WakeLine, TRUE) >>)
    /\ since_wake' = <<>>
    /\ calls' = 0
    /\ stale' = Len(command_audio_buffer)
    /\ pc' = [pc EXCEPT ![t] = "top"]
    /\ fresh' = [fresh EXCEPT ![t] = FALSE]
    /\ UNCHANGED << uiVars, speakerVars, stream, local, stopped >>

\* Lines 145-146: not in the command window, no wake word in the partial text.
NoWakeWord(t) ==
    /\ ~in_command_window
    /\ \E d \in ReadDelays, is_final \in BOOLEAN, partial_text \in PartialTexts :
        /\ BlockRead(t, d)
        /\ ~HasWakeWord(partial_text)
        /\ Silent([EvOf("no_wake", t) EXCEPT !.partial = partial_text])
    /\ pc' = [pc EXCEPT ![t] = "top"]
    /\ fresh' = [fresh EXCEPT ![t] = FALSE]
    /\ UNCHANGED << uiVars, sessionVars, status, speakerVars, stream, local,
                    stopped, since_wake, calls, stale >>

\* Lines 119-121 and 131 (not taken): command audio, no final result, no timeout.
CommandContinues(t) ==
    /\ in_command_window
    /\ \E d \in ReadDelays, partial_text \in PartialTexts :
        /\ BlockRead(t, d)
        /\ command_audio_buffer' = BufferAppend(command_audio_buffer, NewBlock)
        /\ last_word_time' = WordTime(partial_text, now', last_word_time)
        /\ ~TimedOut(now', last_word_time')
        /\ Silent([EvOf("cmd_continue", t) EXCEPT !.partial = partial_text,
                                                  !.elapsed = now' - last_word_time'])
    /\ since_wake' = Append(since_wake, NewBlock)
    /\ pc' = [pc EXCEPT ![t] = "top"]
    /\ fresh' = [fresh EXCEPT ![t] = FALSE]
    /\ UNCHANGED << uiVars, in_command_window, status, speakerVars, stream, local,
                    stopped, calls, stale >>

\* Lines 126-128 and 137-139 up to the blocking requests.post of query_llm:
\* the query is logged and not spoken, the status changes, the payload is posted.
\* `before` is the output of the iteration so far.
Dispatch(t, e, before, command_text, path) ==
    /\ Emit([e EXCEPT !.outcome = "dispatched", !.path = path,
                      !.posted = <<Payload(command_text)>>],
            before \o << log_message(QueryLine(command_text), FALSE),
                         log_message(SendingLine, FALSE) >>)
    /\ status' = StatusQuerying
    /\ local' = [local EXCEPT ![t] = [command_text |-> command_text, path |-> path]]
    /\ pc' = [pc EXCEPT ![t] = "llm"]
    /\ calls' = calls + 1
    /\ UNCHANGED in_command_window

\* The iteration ends the command window without a command.
EndWithoutCommand(t, e, out, path, buffer) ==
    /\ Emit([e EXCEPT !.outcome = "ended", !.path = path,
                      !.reset = EndOfWindow(path, buffer).reset], out)
    /\ in_command_window' = EndOfWindow(path, buffer).in_command_window
    /\ command_audio_buffer' = EndOfWindow(path, buffer).command_audio_buffer
    /\ status' = EndOfWindowStatus
    /\ pc' = [pc EXCEPT ![t] = "top"]
    /\ UNCHANGED << local, calls >>

\* Lines 123-130: command audio and the recognizer reports a final result.
CommandFinal(t) ==
    /\ in_command_window
    /\ \E d \in ReadDelays, partial_text \in PartialTexts, command_text \in FinalTexts :
        /\ BlockRead(t, d)
        /\ last_word_time' = WordTime(partial_text, now', last_word_time)
        /\ LET buffer == BufferAppend(command_audio_buffer, NewBlock)
               e == [EvOf("cmd_final", t) EXCEPT !.final = TRUE,
                                                 !.partial = partial_text,
                                                 !.elapsed = now' - last_word_time',
                                                 !.text = command_text]
           IN IF Truthy(command_text)
              THEN /\ Dispatch(t, e, <<>>, command_text, "final")
                   /\ command_audio_buffer' = buffer
              ELSE EndWithoutCommand(t, e, <<>>, "final", buffer)
    /\ since_wake' = Append(since_wake, NewBlock)
    /\ fresh' = [fresh EXCEPT ![t] = FALSE]
    /\ UNCHANGED << uiVars, speakerVars, stream, stopped, stale >>

\* Lines 131-144: command audio, no final result, the timeout has passed: the
\* buffer is concatenated and fed to the recognizer, whose result is the command.
CommandTimeout(t) ==
    /\ in_command_window
    /\ \E d \in ReadDelays, partial_text \in PartialTexts, command_text \in FinalTexts :
        /\ BlockRead(t, d)
        /\ last_word_time' = WordTime(partial_text, now', last_word_time)
        /\ TimedOut(now', last_word_time')
        /\ LET buffer == BufferAppend(command_audio_buffer, NewBlock)
               full_command_audio == Concatenate(buffer)
               e == [EvOf("cmd_timeout", t) EXCEPT !.partial = partial_text,
                                                   !.elapsed = now' - last_word_time',
                                                   !.text = command_text,
                                                   !.fed = full_command_audio]
           IN IF Truthy(command_text)
              THEN /\ Dispatch(t, e, << log_message(TimeoutLine, FALSE) >>,
                               command_text, "timeout")
                   /\ command_audio_buffer' = buffer
              ELSE EndWithoutCommand(t, e, << log_message(TimeoutLine, FALSE),
                                              log_message(NotUnderstood, TRUE) >>,
                                     "timeout", buffer)
    /\ since_wake' = Append(since_wake, NewBlock)
    /\ fresh' = [fresh EXCEPT ![t] = FALSE]
    /\ UNCHANGED << uiVars, speakerVars, stream, stopped, stale >>


\* ------------------------------------------------------------- LLM bridge
NoResponseText == <<"No response text found in LLM output.">>
ConnectError(e) == <<"Error connecting to LLM: ">> \o e

\* QueryResult with an error message that leaves the exception out.
QueryResult_NoText(outcome) ==
    CASE outcome.kind = "reply"   -> outcome.val
      [] outcome.kind = "nofield" -> NoResponseText
      [] OTHER                    -> <<"Error connecting to LLM">>

\* Lines 167-177: what query_llm returns for an outcome of the request that
\* does not escape it.
QueryResult(outcome) ==
    CASE outcome.kind = "reply"   -> outcome.val
      [] outcome.kind = "nofield" -> NoResponseText
      [] OTHER                    -> ConnectError(outcome.val)

\* Respond through log_message with speak_message left at its default: the
\* logged line is spoken, and the response after it.
Respond_SpeaksLine(response) ==
    IF Truthy(response)
    THEN << log_message(<<"LLM Response: ">> \o response, TRUE),
            [logged |-> <<>>, said |-> <<response>>] >>
    ELSE <<>>

\* Lines 184-186: what process_command logs and speaks for a response.
Respond(response) ==
    IF Truthy(response)
    THEN << log_message(<<"LLM Response: ">> \o response, FALSE),
            [logged |-> <<>>, said |-> <<response>>] >>
    ELSE <<>>

\* Lines 168-186 and the end of the iteration (129-130 or 142-144): the
\* request returns, or fails with a RequestException.
LLMReturns(t) ==
    /\ pc[t] = "llm"
    /\ \E d \in OtherDelays, outcome \in LLMOutcomes :
        /\ now' = now + d
        /\ outcome.kind # "notobject"
        /\ LET response == QueryResult(outcome)
               after == EndOfWindow(local[t].path, command_audio_buffer)
           IN
            /\ Emit([EvOf("llm_returns", t) EXCEPT
                        !.text = local[t].command_text, !.path = local[t].path,
                        !.outcome = outcome.kind, !.val = outcome.val,
                        !.reset = after.reset,
                        !.printed = IF outcome.kind \in {"http", "transport"}
                                    THEN <<response>> ELSE <<>>],
                    Respond(response))
            /\ in_command_window' = after.in_command_window
            /\ command_audio_buffer' = after.command_audio_buffer
    /\ status' = EndOfWindowStatus
    /\ local' = [local EXCEPT ![t] = NoLocal]
    /\ pc' = [pc EXCEPT ![t] = "top"]
    /\ UNCHANGED << uiVars, last_word_time, speakerVars, stream, fresh, stopped,
                    boundVars, since_wake, calls, stale >>

\* Lines 171-172 and 153-154: the body is JSON but no object, so `.get` raises
\* AttributeError, which leaves process_command and is caught by the loop.
LLMRaises(t) ==
    /\ pc[t] = "llm"
    /\ \E d \in OtherDelays, outcome \in LLMOutcomes :
        /\ now' = now + d
        /\ outcome.kind = "notobject"
        /\ Emit([EvOf("llm_raises", t) EXCEPT
                    !.text = local[t].command_text, !.path = local[t].path,
                    !.outcome = outcome.kind, !.val = outcome.val],
                << log_message(LoopErrorLine(outcome.val), TRUE) >>)
    /\ local' = [local EXCEPT ![t] = NoLocal]
    /\ pc' = [pc EXCEPT ![t] = "top"]
    /\ UNCHANGED << uiVars, sessionVars, status, speakerVars, stream, fresh,
                    stopped, boundVars, since_wake, calls, stale >>

\* ------------------------------------------------------------- speaker worker
\* The texts the program passes to speak().
Utterances == { WakeLine, NotUnderstood, <<"it is noon">> }

\* Lines 58-59: some thread calls speak(text).
SpeakCall ==
    /\ Len(enqueued) < MaxUtterances
    /\ \E text \in Utterances :
        /\ speak_queue' = speak(speak_queue, text)
        /\ enqueued' = Append(enqueued, text)
        /\ ev' = [NoEv EXCEPT !.kind = "speak", !.said = <<text>>]
    /\ UNCHANGED << uiVars, sessionVars, status, speakerVars, now, threadVars,
                    stopped, boundVars, since_wake, calls, stale >>

\* QueueGet of a LifoQueue: the newest text is taken.
QueueGet_Lifo(queue) ==
    [text |-> queue[Len(queue)], rest |-> SubSeq(queue, 1, Len(queue) - 1)]

\* Line 64: queue.Queue.get() takes the oldest text.
QueueGet(queue) == [text |-> Head(queue), rest |-> Tail(queue)]

\* Line 64: self.speak_queue.get() returns.
SpeakerGet ==
    /\ sp_pc = "get"
    /\ speak_queue # <<>>
    /\ sp_text' = QueueGet(speak_queue).text
    /\ speak_queue' = QueueGet(speak_queue).rest
    /\ sp_pc' = "render"
    /\ ev' = [NoEv EXCEPT !.kind = "speaker_get", !.val = QueueGet(speak_queue).text]
    /\ UNCHANGED << uiVars, sessionVars, status, played, enqueued, now, threadVars,
                    stopped, boundVars, since_wake, calls, stale >>

\* Lines 65-67: engine.say and engine.runAndWait return.
SpeakerRenders ==
    /\ sp_pc = "render"
    /\ played' = Append(played, [text |-> sp_text, ok |-> TRUE])
    /\ sp_pc' = "get"
    /\ sp_text' = <<>>
    /\ ev' = [NoEv EXCEPT !.kind = "speaker_renders", !.val = sp_text]
    /\ UNCHANGED << uiVars, sessionVars, status, queueVars, now, threadVars,
                    stopped, boundVars, since_wake, calls, stale >>

\* SpeakerRaises without the try of lines 63-69: the exception ends the worker.
SpeakerRaises_Dies ==
    /\ sp_pc = "render"
    /\ played' = Append(played, [text |-> sp_text, ok |-> FALSE])
    /\ sp_pc' = "dead"
    /\ sp_text' = <<>>
    /\ ev' = [NoEv EXCEPT !.kind = "speaker_raises", !.val = sp_text]
    /\ UNCHANGED << uiVars, sessionVars, status, queueVars, now, threadVars,
                    stopped, boundVars, since_wake, calls, stale >>

\* Lines 68-69: rendering raises; the error is printed and the loop goes on.
SpeakerRaises ==
    /\ sp_pc = "render"
    /\ played' = Append(played, [text |-> sp_text, ok |-> FALSE])
    /\ sp_pc' = "get"
    /\ sp_text' = <<>>
    /\ ev' = [NoEv EXCEPT !.kind = "speaker_raises", !.val = sp_text,
                          !.printed = << <<"Error in speaker thread: ", "engine error">> >>]
    /\ UNCHANGED << uiVars, sessionVars, status, queueVars, now, threadVars,
                    stopped, boundVars, since_wake, calls, stale >>

\* ------------------------------------------------------------- specifications
\* The UI thread and the capture threads.
Next ==
    \/ StartListening
    \/ StopListening
    \/ \E t \in Threads : LoopInitOk(t)
    \/ \E t \in Threads : LoopInitFails(t)
    \/ \E t \in Threads : LoopTopContinue(t)
    \/ \E t \in Threads : LoopTopExit(t)
    \/ \E t \in Threads : ReadRaises(t)
    \/ \E t \in Threads : WakeWordDetected(t)
    \/ \E t \in Threads : NoWakeWord(t)
    \/ \E t \in Threads : CommandContinues(t)
    \/ \E t \in Threads : CommandFinal(t)
    \/ \E t \in Threads : CommandTimeout(t)
    \/ \E t \in Threads : LLMReturns(t)
    \/ \E t \in Threads : LLMRaises(t)

Spec == Init /\ [][Next]_vars

\* The speaker worker against the speak() calls of the other threads.
SpeakerNext ==
    \/ SpeakCall
    \/ SpeakerGet
    \/ SpeakerRenders
    \/ SpeakerRaises

SpeakerSpec == Init /\ [][SpeakerNext]_vars

\* The speaker worker is a thread of its own that blocks only in queue.get()
\* and in the engine: a text on the queue is taken, and a rendering ends.
FairSpeakerSpec ==
    /\ SpeakerSpec
    /\ WF_vars(SpeakerGet)
    /\ WF_vars(SpeakerRenders \/ SpeakerRaises)


\* ------------------------------------------------------------- properties
\* The steps that process a block, and those that process it as command audio.
BlockKinds == {"wake", "no_wake", "cmd_continue", "cmd_final", "cmd_timeout"}
CommandKinds == {"cmd_continue", "cmd_final", "cmd_timeout"}

\* C1: a block processed while in_command_window is false whose partial text
\* contains the wake word opens the command window in that one step, and
\* right after it the buffer is empty and last_word_time is the current time;
\* a block without the wake word does not open it.
C1_WakeWordOpensWindow ==
    /\ (ev.kind \in BlockKinds /\ ~ev.icw /\ HasWakeWord(ev.partial)) =>
          /\ ev.kind = "wake"
          /\ in_command_window
          /\ command_audio_buffer = <<>>
          /\ last_word_time = now
    /\ (ev.kind \in BlockKinds /\ ~ev.icw /\ ~HasWakeWord(ev.partial)) =>
          ~in_command_window

\* C1 witness: the third block read opens the window.
C1_Witness ==
    /\ ev.kind = "wake"
    /\ ev.partial = <<"my computers">>
    /\ in_command_window
    /\ command_audio_buffer = <<>>
    /\ last_word_time = now
    /\ blocks = 3

C3_StopClearsWindow ==
    (ev.kind = "exit" /\ ev.stopped = "window") =>
        (~in_command_window /\ stream[ev.t] = "closed")

\* C4: when a capture loop processes its first block, in_command_window is
\* false.
C4_SessionStartsWaiting ==
    (ev.kind \in BlockKinds /\ ev.first) => ~ev.icw

\* C5: at most one capture loop is inside its `while` loop.
C5_OneCaptureLoop ==
    Cardinality({t \in Threads : InLoop(t)}) <= 1

\* C6: once stop_listening has run while a capture loop was running, that
\* loop's next test of is_listening is false: it does not start another
\* iteration.
C6_StopIsObserved ==
    ev.kind = "top_continue" => ev.stopped = "no"


\* The texts of a sequence of played utterances.
RECURSIVE TextsOf(_)
TextsOf(p) == IF p = <<>> THEN <<>> ELSE <<Head(p).text>> \o TextsOf(Tail(p))

\* C7: the utterances handed to the engine, then the one being rendered, then
\* those waiting in the queue are the utterances enqueued, in that order; a
\* text is taken from the queue only while nothing is being rendered.
C7_SpeechIsFifo ==
    /\ TextsOf(played) \o (IF sp_pc = "render" THEN <<sp_text>> ELSE <<>>)
          \o speak_queue = enqueued
    /\ ev.kind = "speaker_get" => sp_pc = "render" /\ sp_text = ev.val

\* C7 witness: two different utterances were played in order while a third
\* is rendered and a fourth waits.
C7_Witness ==
    /\ Len(played) = 2
    /\ played[1].text # played[2].text
    /\ sp_pc = "render"
    /\ Len(speak_queue) = 1
    /\ sp_text # speak_queue[1]

\* A line of the log or an utterance contains the text e.
Mentions(line, e) == IsSubstring(e, line)

\* C8: when the request fails with an HTTP status or a transport error, one
\* line that contains the exception text is logged and one utterance that
\* contains it is enqueued, the thread is back at the top of its loop, the
\* command window is closed and is_listening is as it was.
C8_LLMErrorIsReported ==
    (ev.kind = "llm_returns" /\ ev.outcome \in {"http", "transport"}) =>
        /\ Len(ev.logged) = 1 /\ Mentions(ev.logged[1], ev.val)
        /\ Len(ev.said) = 1 /\ Mentions(ev.said[1], ev.val)
        /\ pc[ev.t] = "top"
        /\ ~in_command_window
        /\ is_listening = ev.listening

\* C8 witness: the request of a command fails with HTTP 500.
C8_Witness ==
    /\ ev.kind = "llm_returns"
    /\ ev.outcome = "http"
    /\ ev.val = <<"500 Server Error">>
    /\ ev.said = << <<"Error connecting to LLM: ", "500 Server Error">> >>
    /\ pc[ev.t] = "top"

\* C9: a command window that ends with transcript t dispatches a command
\* exactly when t is not empty; the command is t and the prompt of the
\* payload posted is t.
C9_CommandIsTranscript ==
    (ev.kind \in {"cmd_final", "cmd_timeout"}) =>
        /\ (ev.outcome = "dispatched") <=> (ev.text # <<>>)
        /\ ev.text = <<>> => (ev.posted = <<>> /\ pc[ev.t] = "top")
        /\ ev.text # <<>> =>
              /\ pc[ev.t] = "llm"
              /\ local[ev.t].command_text = ev.text
              /\ Len(ev.posted) = 1
              /\ ev.posted[1].prompt = ev.text

\* C9 witness: the final transcript "what time is it" is posted as the prompt.
C9_Witness ==
    /\ ev.kind = "cmd_final"
    /\ ev.text = <<"what time is it">>
    /\ ev.posted = << [model |-> "llama3", prompt |-> <<"what time is it">>,
                       stream |-> FALSE] >>

\* The reply text of a successful request: the response field, or the
\* stand-in text when the field is missing.
ReplyText(e) == IF e.outcome = "nofield" THEN NoResponseText ELSE e.val

\* C10 as stated: after a successful request the reply text is logged and is
\* the one utterance enqueued, whatever the reply.
C10_AsStated ==
    (ev.kind = "llm_returns" /\ ev.outcome \in {"reply", "nofield"}) =>
        /\ ev.said = << ReplyText(ev) >>
        /\ Len(ev.logged) = 1 /\ Mentions(ev.logged[1], ReplyText(ev))

\* C10 amended: after a successful request a non-empty reply text (the
\* response field, or the stand-in text for a missing field) is logged and is
\* the one utterance enqueued; an empty reply is neither logged nor enqueued.
C10_NonEmptyReplyIsSpoken ==
    (ev.kind = "llm_returns" /\ ev.outcome \in {"reply", "nofield"}) =>
        IF ReplyText(ev) # <<>>
        THEN /\ ev.said = << ReplyText(ev) >>
             /\ ev.logged = << <<"LLM Response: ">> \o ReplyText(ev) >>
        ELSE ev.said = <<>> /\ ev.logged = <<>>

\* C10 witness: the reply "it is noon" is logged and enqueued once.
C10_Witness ==
    /\ ev.kind = "llm_returns"
    /\ ev.outcome = "reply"
    /\ ev.val = <<"it is noon">>
    /\ ev.said = << <<"it is noon">> >>
    /\ ev.logged = << <<"LLM Response: ", "it is noon">> >>


\* C11: when an iteration of the capture loop raises (stream.read, the
\* recognizer or the decoding of its result, or an exception that escapes
\* process_command), one line with the exception text is logged, the thread
\* is back at the `while` test with its stream open, and is_listening is as
\* it was before the step.
C11_LoopSurvivesException ==
    ev.kind \in {"read_raises", "llm_raises"} =>
        /\ Len(ev.logged) = 1 /\ Mentions(ev.logged[1], ev.val)
        /\ pc[ev.t] = "top"
        /\ stream[ev.t] = "open"
        /\ is_listening = ev.listening

\* C11 witness: the read of a block raises while the session is listening,
\* and the loop is about to test is_listening, which is still true.
C11_Witness ==
    /\ ev.kind = "read_raises"
    /\ ev.val = <<"PortAudioError">>
    /\ ev.logged = << <<"Error during listening loop: ", "PortAudioError">> >>
    /\ pc[ev.t] = "top"
    /\ is_listening


\* C12: when the creation of the model or the recognizer raises, the error is
\* logged, the thread ends without having opened a stream or read a block,
\* and the session is idle: is_listening and in_command_window are false, the
\* status is "Idle" and the button offers a new start.  A thread that ended
\* without a stream has processed no block.
C12_InitFailureEndsIdle ==
    /\ ev.kind = "init_fail" =>
          /\ ev.logged = << InitErrorMessage >>
          /\ pc[ev.t] = "done"
          /\ stream[ev.t] = "none"
          /\ fresh[ev.t]
          /\ ~is_listening
          /\ ~in_command_window
          /\ status = StatusIdle
          /\ button = "Start Listening"
    /\ \A t \in Threads : (pc[t] = "done" /\ stream[t] = "none") => fresh[t]

\* C12 witness: the initialization of the second session fails after a first
\* session had set the status and was stopped.
C12_Witness ==
    /\ ev.kind = "init_fail"
    /\ ev.t = 2
    /\ ev.listening
    /\ stream[1] # "none"
    /\ stream[2] = "none"
    /\ ~is_listening
    /\ status = StatusIdle


\* C13: an exception of the engine leaves the speaker worker waiting at
\* queue.get(), and the n-th utterance enqueued, whether enqueued before or
\* after a failing one, is eventually the n-th utterance handed to the engine.
C13_SpeakerSurvivesException ==
    /\ [](ev.kind = "speaker_raises" => sp_pc = "get")
    /\ \A n \in 1..MaxUtterances :
          [](Len(enqueued) >= n =>
                <>(Len(played) >= n /\ played[n].text = enqueued[n]))

\* C13 witness: a rendering failed while another utterance was waiting, and
\* that utterance was rendered after it.
C13_Witness ==
    /\ Len(played) = 2
    /\ ~played[1].ok
    /\ played[2].ok
    /\ played[1].text # played[2].text
    /\ TextsOf(played) = SubSeq(enqueued, 1, 2)


\* The utterances of a step, as a set.
SaidSet(e) == { e.said[i] : i \in 1..Len(e.said) }

\* C14: an iteration that ends the command window by the timeout with an
\* empty transcript enqueues the one utterance "I heard something, but could
\* not understand." and posts no command; with a non-empty transcript neither
\* that iteration nor the return of its request enqueues the notice.
C14_EmptyTimeoutIsAnnounced ==
    /\ ev.kind = "cmd_timeout" =>
          IF ev.text = <<>>
          THEN /\ ev.said = << <<"I heard something, but could not understand.">> >>
               /\ ev.posted = <<>>
               /\ ev.outcome = "ended"
               /\ pc[ev.t] = "top"
          ELSE /\ ev.said = <<>>
               /\ ev.outcome = "dispatched"
    /\ (ev.kind \in {"llm_returns", "llm_raises"} /\ ev.path = "timeout") =>
          <<"I heard something, but could not understand.">> \notin SaidSet(ev)

\* C14 witness: the timeout path yields an empty transcript and the notice
\* is the one utterance of the step.
C14_Witness ==
    /\ ev.kind = "cmd_timeout"
    /\ ev.text = <<>>
    /\ ev.fed # <<>>
    /\ ev.said = << NotUnderstood >>
    /\ ev.logged = << TimeoutLine, NotUnderstood >>
    /\ ev.posted = <<>>


\* C15: recognizer.Reset() runs only in an iteration that finds the wake word
\* while in_command_window is false; no iteration that processes its block as
\* command audio, and no return from the LLM request, resets the recognizer.
C15_ResetOnlyOnWakeWord ==
    /\ ev.reset => (ev.kind = "wake" /\ ~ev.icw /\ HasWakeWord(ev.partial))
    /\ ev.kind \in CommandKinds => ~ev.reset

\* C15 witness: the iteration that opens the command window resets the
\* recognizer.
C15_Witness ==
    /\ ev.kind = "wake"
    /\ ev.reset
    /\ ~ev.icw
    /\ in_command_window


\* C16: a step of the UI thread (start_listening, stop_listening) leaves
\* in_command_window, last_word_time and command_audio_buffer unchanged.
C16_UiLeavesSessionState ==
    [][ev'.kind \in {"start", "stop"} => UNCHANGED sessionVars]_vars


\* C17: an iteration that processes a block while in_command_window is true
\* takes the command branch and puts the block at the end of
\* command_audio_buffer (on the timeout path, at the end of the audio that is
\* force-fed), and no step makes last_word_time smaller.
C17_BufferGrowsTimeAdvances ==
    /\ [][(ev'.kind \in BlockKinds /\ in_command_window) =>
             /\ ev'.kind \in CommandKinds
             /\ IF ev'.kind = "cmd_timeout"
                THEN ev'.fed = Concatenate(command_audio_buffer) \o << blocks' >>
                ELSE command_audio_buffer' =
                        Append(command_audio_buffer, << blocks' >>)]_vars
    /\ [][last_word_time' >= last_word_time]_vars

\* C17 witness: the second block of a command window is behind the first in
\* the buffer, and last_word_time has moved to the time of that block.
C17_Witness ==
    /\ ev.kind = "cmd_continue"
    /\ ev.partial # <<>>
    /\ command_audio_buffer = << <<2>>, <<3>> >>
    /\ last_word_time = now
    /\ in_command_window


\* C18: between two wake-word detections process_command is called at most
\* once.
C18_OneCommandPerWindow == calls <= 1


\* C19: the audio force-fed on the timeout path is the blocks processed as
\* command audio since the most recent wake-word detection, in the order of
\* their capture, and nothing else.
C19_ForceFedAudioIsThisWindow ==
    ev.kind = "cmd_timeout" =>
        /\ Len(ev.fed) = Len(since_wake)
        /\ \A i \in 1..Len(ev.fed) : since_wake[i] = << ev.fed[i] >>

\* C19 witness: the fourth block is force-fed alone, in a window that was
\* opened while a block of an earlier window was still in the buffer.
C19_Witness ==
    /\ ev.kind = "cmd_timeout"
    /\ stale = 1
    /\ blocks = 4
    /\ ev.fed = << 4 >>


\* C20: when is_listening is false and no capture thread is running, the
\* status line shows "Idle".
C20_IdleStatusWhenStopped ==
    (~is_listening /\ \A t \in Threads : ~Running(t)) => status = StatusIdle

====
